---- MODULE Spec2Model ----
(***************************************************************************)
(* Execution plane of the outbound call-campaign service: the scheduler    *)
(* loop (callSchedulerWorker), the dispatch queue (callTaskQueue, BullMQ)  *)
(* and the call task worker with its Redis concurrency gate, over the      *)
(* call_tasks / call_campaigns / call_logs rows of the relational store.   *)
(* Time is counted in minutes; minute 0 is a Monday 00:00 wall-clock in    *)
(* the schedule's time zone.                                               *)
(***************************************************************************)
EXTENDS Integers, Sequences, FiniteSets, TLC

\* ---------------------------------------------------------------- bounds
NumTasks == 2
NumReplicas == 2
MaxTime == 2
MaxFaults == 2
MaxRetriesBound == 1
MaxCapBound == 1
BatchLimit == 1
MaxDay == 7

\* ------------------------------------------------------ program constants
SCHEDULE_WINDOW_MINUTES == 1
GLOBAL_MAX_CONCURRENT_CALLS == 50
BULLMQ_MAX_RETRIES == 3
SearchDays == 14

Tasks == 1..NumTasks
Replicas == 1..NumReplicas
Null == -1
MinutesPerDay == 24 * 60

\* ------------------------------------------------------ schedule evaluator
\* The call_schedules row of the campaign: monday..friday, 09:00-09:01;
\* the tasks are created on the first Monday at 09:00.
StartT0 == 9 * 60
\* A time zone of the tz database: the standard offset from UTC, and the
\* instants between which daylight saving time adds one hour (none when the
\* two are equal).  date-fns-tz resolves a wall-clock that the zone shows
\* twice, or never, to one instant; which one is the library's rule.
UTC == [std |-> 0, dstStart |-> 0, dstEnd |-> 0, resolve |-> "earlier"]

\* JSON values of the schedule_rules column: a string is the sequence of its
\* characters, an array the sequence of its items (day names are kept whole).
Undefined == [type |-> "undefined"]
Str(chars) == [type |-> "string", chars |-> chars]
Arr(items) == [type |-> "array", items |-> items]

Digits == <<"0", "1", "2", "3", "4", "5", "6", "7", "8", "9">>
IsDigit(c) == \E i \in DOMAIN Digits : Digits[i] = c
\* Number("7") = 7
Number(c) == (CHOOSE i \in DOMAIN Digits : Digits[i] = c) - 1
\* the text HH:MM of an hour and a minute below 100
TimeText(h, m) ==
  Str(<<Digits[(h \div 10) + 1], Digits[(h % 10) + 1], ":",
        Digits[(m \div 10) + 1], Digits[(m % 10) + 1]>>)

TheSchedule ==
  [schedule_rules |->
     [days |-> Arr(<<"monday", "tuesday", "wednesday", "thursday", "friday">>),
      start_time |-> TimeText(9, 0), end_time |-> TimeText(9, 1)],
   time_zone |-> UTC]

FixedOffset(tz) == tz.dstStart = tz.dstEnd
Offset(tz, t) ==
  IF tz.dstStart <= t /\ t < tz.dstEnd THEN tz.std + 60 ELSE tz.std

\* Variant that leaves the instant as it is:
toZonedTime_NoConversion(t, tz) == t

\* the process runs in UTC: the Date returned carries the zone's wall-clock
toZonedTime(t, tz) == t + Offset(tz, t)

\* Variant that returns the wall-clock value unconverted:
fromZonedTime_NoConversion(t, tz) == t

fromZonedTime(t, tz) ==
  LET shown == {u \in {t - tz.std, t - (tz.std + 60)} : toZonedTime(u, tz) = t}
      early == t - (tz.std + 60)
      late == t - tz.std
  IN IF shown = {late} THEN late
     ELSE IF shown = {early} THEN early
     ELSE IF tz.resolve = "earlier" THEN early ELSE late

isBefore(a, b) == a < b

\* Variant that also counts the instant b itself as after b:
isAfter_OrEqual(a, b) == a >= b

isAfter(a, b) == a > b
startOfDay(t) == t - (t % MinutesPerDay)
getDay(t) == ((t \div MinutesPerDay) + 1) % 7

\* Variant of the search loop that gives up after 7 days:
RECURSIVE SearchSlot_OneWeek(_, _, _)
SearchSlot_OneWeek(s, candidateDate, i) ==
  IF i >= 7 THEN Null
  ELSE LET windowStart == startOfDay(candidateDate) + s.start_time
           windowEnd == startOfDay(candidateDate) + s.end_time
       IN IF getDay(candidateDate) \in s.days /\ isBefore(candidateDate, windowStart)
            THEN fromZonedTime(windowStart, s.tz)
          ELSE IF getDay(candidateDate) \in s.days /\ ~isAfter(candidateDate, windowEnd)
            THEN fromZonedTime(candidateDate, s.tz)
          ELSE SearchSlot_OneWeek(s, startOfDay(candidateDate + MinutesPerDay), i + 1)

RECURSIVE SearchSlot(_, _, _)
SearchSlot(s, candidateDate, i) ==
  IF i >= SearchDays THEN Null
  ELSE LET windowStart == startOfDay(candidateDate) + s.start_time
           windowEnd == startOfDay(candidateDate) + s.end_time
       IN IF getDay(candidateDate) \in s.days /\ isBefore(candidateDate, windowStart)
            THEN fromZonedTime(windowStart, s.tz)
          ELSE IF getDay(candidateDate) \in s.days /\ ~isAfter(candidateDate, windowEnd)
            THEN fromZonedTime(candidateDate, s.tz)
          ELSE SearchSlot(s, startOfDay(candidateDate + MinutesPerDay), i + 1)

\* /^\d{2}:\d{2}$/
MatchesHHMM(v) ==
  /\ Len(v.chars) = 5
  /\ IsDigit(v.chars[1]) /\ IsDigit(v.chars[2])
  /\ v.chars[3] = ":"
  /\ IsDigit(v.chars[4]) /\ IsDigit(v.chars[5])

isValidScheduleRules(rules) ==
  /\ rules.days.type = "array"
  /\ rules.start_time.type = "string"
  /\ rules.end_time.type = "string"
  /\ MatchesHHMM(rules.start_time)
  /\ MatchesHHMM(rules.end_time)

dayNameToIndex ==
  [sunday |-> 0, monday |-> 1, tuesday |-> 2, wednesday |-> 3,
   thursday |-> 4, friday |-> 5, saturday |-> 6]

\* String.prototype.toLowerCase on the names that occur with capitals
Capitalised ==
  [Monday |-> "monday", MONDAY |-> "monday", WEDNESDAY |-> "wednesday",
   FriDAY |-> "friday", Sunday |-> "sunday", NotADay |-> "notaday"]
toLowerCase(name) ==
  IF name \in DOMAIN Capitalised THEN Capitalised[name] ELSE name

\* Variant that looks the name up as it is written:
validDays_CaseSensitive(days) ==
  {dayNameToIndex[days[i]] :
     i \in {j \in DOMAIN days : days[j] \in DOMAIN dayNameToIndex}}

validDays(days) ==
  {dayNameToIndex[toLowerCase(days[i])] :
     i \in {j \in DOMAIN days : toLowerCase(days[j]) \in DOMAIN dayNameToIndex}}

\* start_time.split(':').map(Number), then set(startOfDay(..), {hours, minutes})
\* as minutes after the start of the day
ClockMinutes(v) ==
  (Number(v.chars[1]) * 10 + Number(v.chars[2])) * 60
    + Number(v.chars[4]) * 10 + Number(v.chars[5])

\* the rules of a schedule that passed validation, as the search loop uses them
Rules(schedule) ==
  [days |-> validDays(schedule.schedule_rules.days.items),
   start_time |-> ClockMinutes(schedule.schedule_rules.start_time),
   end_time |-> ClockMinutes(schedule.schedule_rules.end_time),
   tz |-> schedule.time_zone]

getNextValidScheduleDate(schedule, startingFrom) ==
  IF ~isValidScheduleRules(schedule.schedule_rules) THEN Null
  ELSE IF validDays(schedule.schedule_rules.days.items) = {} THEN Null
  ELSE SearchSlot(Rules(schedule),
                  toZonedTime(startingFrom, schedule.time_zone), 0)

\* ------------------------------------------------------------------ state
VARIABLES
  now,           \* wall clock (NOW(), new Date()), minutes
  api,           \* per phone number, the latest addPhoneNumberToCampaign
                 \* call: "none", "created" (between the creation of the
                 \* task and the increment of total_tasks), "done", or the
                 \* error it threw
  task,          \* call_tasks rows: status, retry_count, scheduled_at
  camp,          \* the call_campaigns row, with its call_schedules row
  logs,          \* call_logs rows per task: sequence of statuses
  active_calls,  \* Redis key campaign:{id}:active_calls
  job,           \* BullMQ job call-task-{id}: state, attemptsMade
  run,           \* the worker processor run on the job of each task; its
                 \* error is what the catch block caught: Error('Call failed')
                 \* of the placer ("call_failed") or an error of the store
  sch,           \* scheduler replicas: position in the tick, claimed rows
  claims,        \* history: claims of the task since it last became pending
  faults,        \* store errors the environment has injected so far
  campaignStatus \* what the latest GET /call-campaigns/:id/status returned

vars == <<now, api, task, camp, logs, active_calls, job, run, sch, claims,
          faults, campaignStatus>>

IdleRun == [pc |-> "idle", retry_count |-> 0, acquired |-> FALSE,
            decrs |-> 0, thrown |-> FALSE, result |-> "none",
            error |-> "none"]

Init ==
  /\ now = StartT0
  /\ api = [t \in Tasks |-> "none"]
  /\ task = [t \in Tasks |->
               [status |-> "pending", retry_count |-> 0,
                scheduled_at |-> getNextValidScheduleDate(TheSchedule, StartT0)]]
  /\ \E c \in 1..MaxCapBound, m \in 0..MaxRetriesBound :
       camp = [is_paused |-> TRUE, max_concurrent_calls |-> c, max_retries |-> m,
               total_tasks |-> NumTasks, completed_tasks |-> 0,
               failed_tasks |-> 0, retries_attempted |-> 0,
               schedule_id |-> 1, call_schedules |-> TheSchedule]
  /\ logs = [t \in Tasks |-> <<>>]
  /\ active_calls = 0
  /\ job = [t \in Tasks |-> [state |-> "none", attemptsMade |-> 0]]
  /\ run = [t \in Tasks |-> IdleRun]
  /\ sch = [r \in Replicas |-> [pc |-> "sleep", rows |-> {}, isShuttingDown |-> FALSE]]
  /\ claims = [t \in Tasks |-> 0]
  /\ faults = 0
  /\ campaignStatus = "none"

\* ---------------------------------------------------------- row locks
\* Rows locked by the FOR UPDATE of a claim statement that has not finished.
LockedBy(t) == {r \in Replicas : sch[r].pc = "locked" /\ t \in sch[r].rows}
RowLocked(t) == LockedBy(t) # {}
CampaignLocked == \E r \in Replicas : sch[r].pc = "locked" /\ sch[r].rows # {}

\* ---------------------------------------------------------- store errors
\* Outcomes of a store or broker call: TRUE, or FALSE (the call throws)
\* while the environment still has an error to inject.
Outcomes == IF faults < MaxFaults THEN BOOLEAN ELSE {TRUE}
Charge(ok) == IF ok THEN faults ELSE faults + 1

\* ---------------------------------------------------------- API
\* PUT /call-campaigns/:id with is_paused
updateCallCampaign(p) ==
  /\ camp.is_paused # p
  /\ ~CampaignLocked
  /\ camp' = [camp EXCEPT !.is_paused = p]
  /\ UNCHANGED <<campaignStatus, now, api, task, logs, active_calls, job, run, sch, claims, faults>>

\* COUNT(*) FILTER (WHERE status = ...) FROM call_tasks of the campaign
CountStatus(status) == Cardinality({t \in Tasks : task[t].status = status})
CountAll == Cardinality({t \in Tasks : task[t].status # "absent"})

\* Variant that looks for unfinished tasks before failed ones:
StatusOfCounts_ActiveFirst(totalTasks, failedCount, inProgressCount, pendingCount, completedCount) ==
  IF totalTasks = 0 THEN "paused"
  ELSE IF inProgressCount > 0 \/ pendingCount > 0 THEN "in-progress"
  ELSE IF failedCount > 0 THEN "failed"
  ELSE IF completedCount = totalTasks THEN "completed"
  ELSE "paused"

\* Variant that reports pending while no task has been claimed yet:
StatusOfCounts_PendingReported(totalTasks, failedCount, inProgressCount, pendingCount, completedCount) ==
  IF totalTasks = 0 THEN "paused"
  ELSE IF failedCount > 0 THEN "failed"
  ELSE IF inProgressCount > 0 THEN "in-progress"
  ELSE IF pendingCount > 0 THEN "pending"
  ELSE IF completedCount = totalTasks THEN "completed"
  ELSE "paused"

StatusOfCounts(totalTasks, failedCount, inProgressCount, pendingCount, completedCount) ==
  IF totalTasks = 0 THEN "paused"
  ELSE IF failedCount > 0 THEN "failed"
  ELSE IF inProgressCount > 0 \/ pendingCount > 0 THEN "in-progress"
  ELSE IF completedCount = totalTasks THEN "completed"
  ELSE "paused"

\* GET /call-campaigns/:id/status
getCampaignStatus ==
  /\ campaignStatus' =
       IF camp.is_paused THEN "paused"
       ELSE StatusOfCounts(CountAll, CountStatus("failed"),
                           CountStatus("in-progress"), CountStatus("pending"),
                           CountStatus("completed"))
  /\ UNCHANGED <<now, api, task, camp, logs, active_calls, job, run, sch,
                 claims, faults>>

\* A call_tasks row that does not exist (yet).
NoTask == [status |-> "absent", retry_count |-> 0, scheduled_at |-> Null]

\* Variant that finds no task for the pair:
existingTask_NotLookedUp(t) == FALSE

\* call_tasks.findUnique on (campaign_id, phone_number_id)
existingTask(t) == task[t].status # "absent"

\* POST /call-campaigns/:id/add-phone-number, up to call_tasks.create: throws
\* CallTaskAlreadyExistsError when the task exists, InvalidScheduleError when
\* the campaign has no schedule or the schedule has no slot
addPhoneNumberToCampaign(t) ==
  /\ api[t] # "created"
  /\ IF existingTask(t)
       THEN /\ api' = [api EXCEPT ![t] = "CallTaskAlreadyExistsError"]
            /\ UNCHANGED <<task, faults>>
     ELSE IF camp.schedule_id = Null
       THEN /\ api' = [api EXCEPT ![t] = "InvalidScheduleError"]
            /\ UNCHANGED <<task, faults>>
     ELSE LET scheduledAt == getNextValidScheduleDate(camp.call_schedules, now)
          IN IF scheduledAt = Null
               THEN /\ api' = [api EXCEPT ![t] = "InvalidScheduleError"]
                    /\ UNCHANGED <<task, faults>>
               ELSE \E ok \in Outcomes :
                      /\ faults' = Charge(ok)
                      /\ IF ok
                           THEN /\ task' = [task EXCEPT ![t] =
                                      [status |-> "pending", retry_count |-> 0,
                                       scheduled_at |-> scheduledAt]]
                                /\ api' = [api EXCEPT ![t] = "created"]
                           ELSE /\ api' = [api EXCEPT ![t] = "PrismaError"]
                                /\ UNCHANGED task
  /\ UNCHANGED <<campaignStatus, now, camp, logs, active_calls, job, run, sch, claims>>

\* ... then call_campaigns.update({ total_tasks: { increment: 1 } }), a
\* statement of its own
IncrementTotalTasks(t) ==
  /\ api[t] = "created"
  /\ ~CampaignLocked
  /\ \E ok \in Outcomes :
       /\ faults' = Charge(ok)
       /\ camp' = IF ok THEN [camp EXCEPT !.total_tasks = @ + 1] ELSE camp
       /\ api' = [api EXCEPT ![t] = IF ok THEN "done" ELSE "PrismaError"]
  /\ UNCHANGED <<campaignStatus, now, task, logs, active_calls, job, run, sch, claims>>

\* ---------------------------------------------------------- dispatch queue
\* Queue.add / addBulk with jobId call-task-{id}: ignored while a job with
\* that id exists in the queue (finished jobs are kept: no removeOnComplete).
\* The scheduler adds in bulk; enqueueCallTask is the exported single add,
\* open to any producer sharing the queue.
\* The queue is keyed by job id, and the job id is call-task-{id} in both
\* helpers, so job[t] is the entry of task t's job id.
\* Variant that puts a fresh job in place of the one with that id:
AddJob_Replace(jobs, t) ==
  [jobs EXCEPT ![t] = [state |-> "waiting", attemptsMade |-> 0]]

AddJob(jobs, t) ==
  IF jobs[t].state = "none"
    THEN [jobs EXCEPT ![t] = [state |-> "waiting", attemptsMade |-> 0]]
    ELSE jobs

RECURSIVE AddBulk(_, _)
AddBulk(jobs, S) ==
  IF S = {} THEN jobs
  ELSE LET t == CHOOSE x \in S : TRUE
       IN AddBulk(AddJob(jobs, t), S \ {t})

enqueueCallTask(t) ==
  /\ job' = AddJob(job, t)
  /\ UNCHANGED <<campaignStatus, now, api, task, camp, logs, active_calls, run, sch, claims, faults>>

\* ---------------------------------------------------------- scheduler loop
Horizon == SCHEDULE_WINDOW_MINUTES + 1

\* WHERE clause of the claim's sub-select.
\* Variant without the ct.status = 'pending' condition:
Eligible_NoStatus(t) ==
  /\ camp.is_paused = FALSE
  /\ task[t].scheduled_at <= now + Horizon

\* Variant without the cc.is_paused = FALSE condition:
Eligible_IgnorePause(t) ==
  /\ task[t].status = "pending"
  /\ task[t].scheduled_at <= now + Horizon

Eligible(t) ==
  /\ camp.is_paused = FALSE
  /\ task[t].status = "pending"
  /\ task[t].scheduled_at <= now + Horizon

\* ORDER BY ct.scheduled_at ASC LIMIT n over the rows that can be locked
OrderedLimit(C, n) ==
  {S \in SUBSET C :
     /\ Cardinality(S) = (IF Cardinality(C) < n THEN Cardinality(C) ELSE n)
     /\ \A a \in S, b \in C \ S : task[a].scheduled_at <= task[b].scheduled_at}

\* Rows the sub-select returns: FOR UPDATE SKIP LOCKED without an OF clause
\* locks the task row and the joined campaign row, and skips a joined row
\* of which either is locked by a concurrent claim.
\* Variant that reads locked rows as well (no SKIP LOCKED, no lock wait):
Claimable_NoSkip == {t \in Tasks : Eligible(t)}

Claimable ==
  IF CampaignLocked THEN {}
  ELSE {t \in Tasks : Eligible(t) /\ ~RowLocked(t)}

\* sub-select ... LIMIT n FOR UPDATE SKIP LOCKED: lock the rows found
ClaimSelectWith(r, n) ==
  /\ sch[r].pc = "sleep"
  /\ ~sch[r].isShuttingDown
  /\ Claimable # {}
  /\ \E S \in OrderedLimit(Claimable, n) :
       sch' = [sch EXCEPT ![r].pc = "locked", ![r].rows = S]
  /\ UNCHANGED <<campaignStatus, now, api, task, camp, logs, active_calls, job, run, claims, faults>>

ClaimSelect(r) == ClaimSelectWith(r, GLOBAL_MAX_CONCURRENT_CALLS)

\* Variant whose UPDATE leaves the status of the rows as it was:
ClaimUpdate_StatusKept(r) ==
  /\ sch[r].pc = "locked"
  /\ \E ok \in Outcomes :
       /\ faults' = Charge(ok)
       /\ sch' = IF ok THEN [sch EXCEPT ![r].pc = "enqueue"]
                      ELSE [sch EXCEPT ![r].pc = "sleep", ![r].rows = {}]
  /\ UNCHANGED <<campaignStatus, now, api, task, camp, logs, active_calls, job, run, claims>>

\* UPDATE ... SET status = 'in-progress' ... RETURNING *; an error is
\* caught and logged by the tick
ClaimUpdate(r) ==
  /\ sch[r].pc = "locked"
  /\ \E ok \in Outcomes :
       /\ faults' = Charge(ok)
       /\ IF ok
            THEN /\ task' = [t \in Tasks |->
                       IF t \in sch[r].rows
                         THEN [task[t] EXCEPT !.status = "in-progress"]
                         ELSE task[t]]
                 /\ claims' = [t \in Tasks |->
                       IF t \in sch[r].rows THEN claims[t] + 1 ELSE claims[t]]
                 /\ sch' = [sch EXCEPT ![r].pc = "enqueue"]
            ELSE /\ sch' = [sch EXCEPT ![r].pc = "sleep", ![r].rows = {}]
                 /\ UNCHANGED <<task, claims>>
  /\ UNCHANGED <<campaignStatus, now, api, camp, logs, active_calls, job, run>>

\* enqueueCallTasks(callsToRun); an error is caught and logged by the tick
Enqueue(r) ==
  /\ sch[r].pc = "enqueue"
  /\ \E ok \in Outcomes :
       /\ faults' = Charge(ok)
       /\ job' = IF ok THEN AddBulk(job, sch[r].rows) ELSE job
  /\ sch' = [sch EXCEPT ![r].pc = "sleep", ![r].rows = {}]
  /\ UNCHANGED <<campaignStatus, now, api, task, camp, logs, active_calls, run, claims>>

\* SIGTERM / SIGINT handler, first statement: isShuttingDown = true
Signal(r) ==
  /\ sch[r].pc # "exited"
  /\ ~sch[r].isShuttingDown
  /\ sch' = [sch EXCEPT ![r].isShuttingDown = TRUE]
  /\ UNCHANGED <<campaignStatus, now, api, task, camp, logs, active_calls, job, run, claims, faults>>

\* Rows a tick still holds when the process ends: a claim statement in
\* flight is rolled back with its connection (the statement that commits
\* first is ClaimUpdate followed by Exit); rows claimed and not yet passed
\* to enqueueCallTasks stay with the tick that will never enqueue them.

RowsAtExit(s) == IF s.pc = "enqueue" THEN s.rows ELSE {}

\* SIGTERM / SIGINT handler, after await prisma.$disconnect():
\* process.exit(0), wherever the tick is
Exit(r) ==
  /\ sch[r].pc # "exited"
  /\ sch[r].isShuttingDown
  /\ sch' = [sch EXCEPT ![r].pc = "exited", ![r].rows = RowsAtExit(sch[r])]
  /\ UNCHANGED <<campaignStatus, now, api, task, camp, logs, active_calls, job, run, claims, faults>>

\* ------------------------------------------------------------ worker
\* Processor of the call-tasks worker, one step per await.

\* where: { id: callTaskId, status: 'pending' }
LoadFilter(t) == task[t].status = "pending"

\* findUnique(...); null: acknowledge the job (task_not_found).
\* Variant with the lookup inside the try block, so that the not-found
\* return passes through finally:
Load_InsideTry(t) ==
  /\ job[t].state = "waiting"
  /\ run[t].pc = "idle"
  /\ run' = [run EXCEPT ![t] =
       IF LoadFilter(t)
         THEN [IdleRun EXCEPT !.pc = "gate", !.retry_count = task[t].retry_count]
         ELSE [IdleRun EXCEPT !.pc = "finally", !.result = "task_not_found"]]
  /\ job' = [job EXCEPT ![t].state = "active"]
  /\ UNCHANGED <<campaignStatus, now, api, task, camp, logs, active_calls, sch, claims, faults>>

Load(t) ==
  /\ job[t].state = "waiting"
  /\ run[t].pc = "idle"
  /\ IF LoadFilter(t)
       THEN /\ run' = [run EXCEPT ![t] =
                 [IdleRun EXCEPT !.pc = "gate",
                                 !.retry_count = task[t].retry_count]]
            /\ job' = [job EXCEPT ![t].state = "active"]
       ELSE /\ run' = [run EXCEPT ![t] =
                 [IdleRun EXCEPT !.result = "task_not_found"]]
            /\ job' = [job EXCEPT ![t].state = "completed"]
  /\ UNCHANGED <<campaignStatus, now, api, task, camp, logs, active_calls, sch, claims, faults>>

\* activeCalls = redis.incr(key); activeCalls > campaign.max_concurrent_calls
Gate(t) ==
  /\ run[t].pc = "gate"
  /\ active_calls' = active_calls + 1
  /\ run' = IF active_calls + 1 > camp.max_concurrent_calls
              THEN [run EXCEPT ![t].pc = "denied"]
              ELSE [run EXCEPT ![t].pc = "log", ![t].acquired = TRUE]
  /\ UNCHANGED <<campaignStatus, now, api, task, camp, logs, job, sch, claims, faults>>

\* denied: redis.decr(key)
DeniedDecr(t) ==
  /\ run[t].pc = "denied"
  /\ active_calls' = active_calls - 1
  /\ run' = [run EXCEPT ![t].pc = "resched", ![t].decrs = @ + 1]
  /\ UNCHANGED <<campaignStatus, now, api, task, camp, logs, job, sch, claims, faults>>

\* denied: call_tasks.update({status: 'pending', scheduled_at: newScheduledAt});
\* a null scheduled_at or a store error throws into the catch block
DeniedReschedule(t) ==
  /\ run[t].pc = "resched"
  /\ LET newScheduledAt == getNextValidScheduleDate(camp.call_schedules, now)
     IN \E ok \in Outcomes :
          /\ faults' = Charge(ok)
          /\ IF ok /\ newScheduledAt # Null
               THEN /\ ~RowLocked(t)
                    /\ task' = [task EXCEPT ![t].status = "pending",
                                            ![t].scheduled_at = newScheduledAt]
                    /\ claims' = [claims EXCEPT ![t] = 0]
                    /\ run' = [run EXCEPT ![t].pc = "finally",
                         ![t].result = "campaign_max_concurrent_calls_reached"]
               ELSE /\ run' = [run EXCEPT ![t].pc = "catch",
                                            ![t].error = "store"]
                    /\ UNCHANGED <<task, claims>>
  /\ UNCHANGED <<campaignStatus, now, api, camp, logs, active_calls, job, sch>>

\* call_logs.create({status: 'initiated', ...})
CreateLog(t) ==
  /\ run[t].pc = "log"
  /\ \E ok \in Outcomes :
       /\ faults' = Charge(ok)
       /\ IF ok
            THEN /\ logs' = [logs EXCEPT ![t] = Append(@, "initiated")]
                 /\ run' = [run EXCEPT ![t].pc = "place"]
            ELSE /\ run' = [run EXCEPT ![t].pc = "catch",
                                         ![t].error = "store"]
                 /\ UNCHANGED logs
  /\ UNCHANGED <<campaignStatus, now, api, task, camp, active_calls, job, sch, claims>>

\* simulateCall: the log goes to in_progress, then the call succeeds or
\* fails; when the log update throws, the promise never settles
PlaceWith(t, results) ==
  /\ run[t].pc = "place"
  /\ \E ok \in Outcomes, success \in results :
       /\ faults' = Charge(ok)
       /\ IF ok
            THEN /\ logs' = [logs EXCEPT ![t][Len(logs[t])] = "in-progress"]
                 /\ run' = IF success
                              THEN [run EXCEPT ![t].pc = "commit"]
                              ELSE [run EXCEPT ![t].pc = "catch",
                                               ![t].error = "call_failed"]
            ELSE /\ run' = [run EXCEPT ![t].pc = "hung"]
                 /\ UNCHANGED logs
  /\ UNCHANGED <<campaignStatus, now, api, task, camp, active_calls, job, sch, claims>>

\* Math.random() < 0.9
Place(t) == PlaceWith(t, BOOLEAN)

\* a placer that always fails
PlaceFailing(t) == PlaceWith(t, {FALSE})

\* { increment: 1 } of an update's data.
\* Variant writing { decrement: 1 }:
Increment_Decrement(n) == n - 1

Increment(n) == n + 1

\* Variant whose transaction leaves the campaign row alone:
CountCompleted_Omitted(c) == c

\* call_campaigns.update({ completed_tasks: { increment: 1 } })
CountCompleted(c) == [c EXCEPT !.completed_tasks = Increment(@)]

\* SUCCESS PATH: $transaction([log completed, task completed, completed_tasks++])
Commit(t) ==
  /\ run[t].pc = "commit"
  /\ \E ok \in Outcomes :
       /\ faults' = Charge(ok)
       /\ IF ok
            THEN /\ ~RowLocked(t) /\ ~CampaignLocked
                 /\ logs' = [logs EXCEPT ![t][Len(logs[t])] = "completed"]
                 /\ task' = [task EXCEPT ![t].status = "completed"]
                 /\ camp' = CountCompleted(camp)
                 /\ run' = [run EXCEPT ![t].pc = "finally",
                                       ![t].result = "success"]
            ELSE /\ run' = [run EXCEPT ![t].pc = "catch",
                                         ![t].error = "store"]
                 /\ UNCHANGED <<logs, task, camp>>
  /\ UNCHANGED <<campaignStatus, now, api, active_calls, job, sch, claims>>

\* callTask.retry_count < campaign.max_retries
\* Variant with <= for <:
ShouldRetry_Inclusive(t) == run[t].retry_count <= camp.max_retries

ShouldRetry(t) == run[t].retry_count < camp.max_retries

\* FAILURE PATH (catch): reschedule for a retry, or fail permanently; an
\* error thrown here leaves the processor after the finally block
Catch(t) ==
  /\ run[t].pc = "catch"
  /\ LET newScheduledAt == getNextValidScheduleDate(camp.call_schedules, now)
     IN \E ok \in Outcomes :
          /\ faults' = Charge(ok)
          /\ IF ShouldRetry(t)
               THEN IF ok /\ newScheduledAt # Null
                      THEN /\ ~RowLocked(t) /\ ~CampaignLocked
                           /\ task' = [task EXCEPT ![t].status = "pending",
                                         ![t].retry_count = Increment(@),
                                         ![t].scheduled_at = newScheduledAt]
                           /\ camp' = [camp EXCEPT !.retries_attempted = Increment(@)]
                           /\ claims' = [claims EXCEPT ![t] = 0]
                           /\ run' = [run EXCEPT ![t].pc = "finally",
                                         ![t].result = "retryable_error"]
                      ELSE /\ run' = [run EXCEPT ![t].pc = "finally",
                                                 ![t].thrown = TRUE]
                           /\ UNCHANGED <<task, camp, claims>>
               ELSE IF ok
                      THEN /\ ~RowLocked(t) /\ ~CampaignLocked
                           /\ task' = [task EXCEPT ![t].status = "failed"]
                           /\ camp' = [camp EXCEPT !.failed_tasks = Increment(@)]
                           /\ run' = [run EXCEPT ![t].pc = "finally",
                                         ![t].result = "max_retries_exhausted"]
                           /\ UNCHANGED claims
                      ELSE /\ run' = [run EXCEPT ![t].pc = "finally",
                                                 ![t].thrown = TRUE]
                           /\ UNCHANGED <<task, camp, claims>>
  /\ UNCHANGED <<campaignStatus, now, api, logs, active_calls, job, sch>>

\* finally { redis.decr(key) }: runs on return and on throw.
\* Variant with the decrement after the try block, skipped by a throw:
FinallyDecr_OnReturnOnly(thrown) == IF thrown THEN 0 ELSE 1

FinallyDecr(thrown) == 1

\* The job after the processor returned or threw: completed, or retried
\* until `attempts` runs were made, then failed.
JobAfter(j, thrown) ==
  IF ~thrown THEN [j EXCEPT !.state = "completed"]
  ELSE IF j.attemptsMade + 1 < BULLMQ_MAX_RETRIES
    THEN [state |-> "waiting", attemptsMade |-> j.attemptsMade + 1]
  ELSE [state |-> "failed", attemptsMade |-> j.attemptsMade + 1]

Finally(t) ==
  /\ run[t].pc = "finally"
  /\ active_calls' = active_calls - FinallyDecr(run[t].thrown)
  /\ run' = [run EXCEPT ![t].pc = "idle",
                        ![t].decrs = @ + FinallyDecr(run[t].thrown)]
  /\ job' = [job EXCEPT ![t] = JobAfter(job[t], run[t].thrown)]
  /\ UNCHANGED <<campaignStatus, now, api, task, camp, logs, sch, claims, faults>>

\* ------------------------------------------------------------ time
Advance ==
  /\ now < StartT0 + MaxTime
  /\ now' = now + 1
  /\ UNCHANGED <<campaignStatus, api, task, camp, logs, active_calls, job, run, sch, claims,
               faults>>

Next ==
  \/ \E p \in BOOLEAN : updateCallCampaign(p)
  \/ \E t \in Tasks : enqueueCallTask(t)
  \/ \E r \in Replicas : ClaimSelect(r)
  \/ \E r \in Replicas : ClaimUpdate(r)
  \/ \E r \in Replicas : Enqueue(r)
  \/ \E t \in Tasks : Load(t)
  \/ \E t \in Tasks : Gate(t)
  \/ \E t \in Tasks : DeniedDecr(t)
  \/ \E t \in Tasks : DeniedReschedule(t)
  \/ \E t \in Tasks : CreateLog(t)
  \/ \E t \in Tasks : Place(t)
  \/ \E t \in Tasks : Commit(t)
  \/ \E t \in Tasks : Catch(t)
  \/ \E t \in Tasks : Finally(t)
  \/ Advance

Spec == Init /\ [][Next]_vars

\* ---------------------------------------------------- fair executions
\* An unpaused campaign, no store errors left to inject, the clock held
\* inside the schedule window: every pending task is due.
LiveInit ==
  /\ now = StartT0
  /\ api = [t \in Tasks |-> "none"]
  /\ task = [t \in Tasks |->
               [status |-> "pending", retry_count |-> 0,
                scheduled_at |-> getNextValidScheduleDate(TheSchedule, StartT0)]]
  /\ \E c \in 1..MaxCapBound, m \in 0..MaxRetriesBound :
       camp = [is_paused |-> FALSE, max_concurrent_calls |-> c, max_retries |-> m,
               total_tasks |-> NumTasks, completed_tasks |-> 0,
               failed_tasks |-> 0, retries_attempted |-> 0,
               schedule_id |-> 1, call_schedules |-> TheSchedule]
  /\ logs = [t \in Tasks |-> <<>>]
  /\ active_calls = 0
  /\ job = [t \in Tasks |-> [state |-> "none", attemptsMade |-> 0]]
  /\ run = [t \in Tasks |-> IdleRun]
  /\ sch = [r \in Replicas |-> [pc |-> "sleep", rows |-> {}, isShuttingDown |-> FALSE]]
  /\ claims = [t \in Tasks |-> 0]
  /\ faults = MaxFaults
  /\ campaignStatus = "none"

SchedulerStep(r) == ClaimSelect(r) \/ ClaimUpdate(r) \/ Enqueue(r)

WorkerStep(t) ==
  \/ Load(t) \/ Gate(t) \/ DeniedDecr(t) \/ DeniedReschedule(t)
  \/ CreateLog(t) \/ Place(t) \/ Commit(t) \/ Catch(t) \/ Finally(t)

WorkerStepFailing(t) ==
  \/ Load(t) \/ Gate(t) \/ DeniedDecr(t) \/ DeniedReschedule(t)
  \/ CreateLog(t) \/ PlaceFailing(t) \/ Catch(t) \/ Finally(t)

LiveNext ==
  \/ \E t \in Tasks : enqueueCallTask(t)
  \/ \E r \in Replicas : ClaimSelect(r)
  \/ \E r \in Replicas : ClaimUpdate(r)
  \/ \E r \in Replicas : Enqueue(r)
  \/ \E t \in Tasks : Load(t)
  \/ \E t \in Tasks : Gate(t)
  \/ \E t \in Tasks : DeniedDecr(t)
  \/ \E t \in Tasks : DeniedReschedule(t)
  \/ \E t \in Tasks : CreateLog(t)
  \/ \E t \in Tasks : Place(t)
  \/ \E t \in Tasks : Commit(t)
  \/ \E t \in Tasks : Catch(t)
  \/ \E t \in Tasks : Finally(t)

FailNext ==
  \/ \E t \in Tasks : enqueueCallTask(t)
  \/ \E r \in Replicas : ClaimSelect(r)
  \/ \E r \in Replicas : ClaimUpdate(r)
  \/ \E r \in Replicas : Enqueue(r)
  \/ \E t \in Tasks : Load(t)
  \/ \E t \in Tasks : Gate(t)
  \/ \E t \in Tasks : DeniedDecr(t)
  \/ \E t \in Tasks : DeniedReschedule(t)
  \/ \E t \in Tasks : CreateLog(t)
  \/ \E t \in Tasks : PlaceFailing(t)
  \/ \E t \in Tasks : Catch(t)
  \/ \E t \in Tasks : Finally(t)

\* The scheduler loop keeps ticking and the worker pool keeps taking jobs
\* and running each processor to its end.
LiveSpec ==
  /\ LiveInit /\ [][LiveNext]_vars
  /\ \A r \in Replicas : WF_vars(SchedulerStep(r))
  /\ \A t \in Tasks : WF_vars(WorkerStep(t))

FailSpec ==
  /\ LiveInit /\ [][FailNext]_vars
  /\ \A r \in Replicas : WF_vars(SchedulerStep(r))
  /\ \A t \in Tasks : WF_vars(WorkerStepFailing(t))

\* The system with the shutdown signal delivered to scheduler replicas.
\* Fair executions in which store and broker calls may throw.
FaultyInit ==
  /\ now = StartT0
  /\ api = [t \in Tasks |-> "none"]
  /\ task = [t \in Tasks |->
               [status |-> "pending", retry_count |-> 0,
                scheduled_at |-> getNextValidScheduleDate(TheSchedule, StartT0)]]
  /\ \E c \in 1..MaxCapBound, m \in 0..MaxRetriesBound :
       camp = [is_paused |-> FALSE, max_concurrent_calls |-> c, max_retries |-> m,
               total_tasks |-> NumTasks, completed_tasks |-> 0,
               failed_tasks |-> 0, retries_attempted |-> 0,
               schedule_id |-> 1, call_schedules |-> TheSchedule]
  /\ logs = [t \in Tasks |-> <<>>]
  /\ active_calls = 0
  /\ job = [t \in Tasks |-> [state |-> "none", attemptsMade |-> 0]]
  /\ run = [t \in Tasks |-> IdleRun]
  /\ sch = [r \in Replicas |-> [pc |-> "sleep", rows |-> {}, isShuttingDown |-> FALSE]]
  /\ claims = [t \in Tasks |-> 0]
  /\ faults = 0
  /\ campaignStatus = "none"

FaultySpec ==
  /\ FaultyInit /\ [][LiveNext]_vars
  /\ \A r \in Replicas : WF_vars(SchedulerStep(r))
  /\ \A t \in Tasks : WF_vars(WorkerStep(t))

\* No store errors are injected: what is observed is the handler alone.
ShutdownNext ==
  \/ \E r \in Replicas : Signal(r)
  \/ \E r \in Replicas : Exit(r)
  \/ \E t \in Tasks : enqueueCallTask(t)
  \/ \E r \in Replicas : ClaimSelect(r)
  \/ \E r \in Replicas : ClaimUpdate(r)
  \/ \E r \in Replicas : Enqueue(r)
  \/ \E t \in Tasks : Load(t)
  \/ \E t \in Tasks : Gate(t)
  \/ \E t \in Tasks : DeniedDecr(t)
  \/ \E t \in Tasks : DeniedReschedule(t)
  \/ \E t \in Tasks : CreateLog(t)
  \/ \E t \in Tasks : Place(t)
  \/ \E t \in Tasks : Commit(t)
  \/ \E t \in Tasks : Catch(t)
  \/ \E t \in Tasks : Finally(t)
  \/ Advance

ShutdownSpec == LiveInit /\ [][ShutdownNext]_vars

\* Time passing while nothing is due: the clock reaches the earliest slot of
\* a pending task that lies beyond the horizon.
LaterSlots ==
  {task[t].scheduled_at : t \in {u \in Tasks : task[u].status = "pending"
                                             /\ task[u].scheduled_at > now + Horizon}}

Elapse ==
  /\ LaterSlots # {}
  /\ \A t \in Tasks : task[t].status = "pending" => task[t].scheduled_at > now + Horizon
  /\ \E n \in LaterSlots :
       /\ \A m \in LaterSlots : n <= m
       /\ n <= StartT0 + MaxDay * MinutesPerDay
       /\ now' = n
  /\ UNCHANGED <<campaignStatus, api, task, camp, logs, active_calls, job, run, sch, claims, faults>>

\* The same with a claim that admits BatchLimit rows, fewer than are due.
BatchSchedulerStep(r) ==
  ClaimSelectWith(r, BatchLimit) \/ ClaimUpdate(r) \/ Enqueue(r)

LiveBatchNext ==
  \/ Advance
  \/ Elapse
  \/ \E t \in Tasks : enqueueCallTask(t)
  \/ \E r \in Replicas : ClaimSelectWith(r, BatchLimit)
  \/ \E r \in Replicas : ClaimUpdate(r)
  \/ \E r \in Replicas : Enqueue(r)
  \/ \E t \in Tasks : Load(t)
  \/ \E t \in Tasks : Gate(t)
  \/ \E t \in Tasks : DeniedDecr(t)
  \/ \E t \in Tasks : DeniedReschedule(t)
  \/ \E t \in Tasks : CreateLog(t)
  \/ \E t \in Tasks : Place(t)
  \/ \E t \in Tasks : Commit(t)
  \/ \E t \in Tasks : Catch(t)
  \/ \E t \in Tasks : Finally(t)

LiveBatchSpec ==
  /\ LiveInit /\ [][LiveBatchNext]_vars
  /\ WF_vars(Elapse)
  /\ \A r \in Replicas : WF_vars(BatchSchedulerStep(r))
  /\ \A t \in Tasks : WF_vars(WorkerStep(t))

\* ------------------------------------------------ schedules and instants
\* Tasks created under any well-formed schedule at any instant: weekday sets,
\* window bounds with start_time <= end_time, zones west and east of UTC, and
\* instants before, at, inside and after the bounds on every weekday.
SchedDays ==
  {<<>>, <<"monday", "tuesday", "wednesday", "thursday", "friday">>,
   <<"sunday">>, <<"saturday", "sunday">>, <<"wednesday">>,
   <<"sunday", "monday", "tuesday", "wednesday", "thursday", "friday",
     "saturday">>}
SchedClock ==
  {TimeText(0, 0), TimeText(2, 30), TimeText(9, 0), TimeText(9, 1),
   TimeText(23, 59)}
\* New York time changes at 02:00 wall-clock on a Sunday: the clock jumps to
\* 03:00 in spring and returns to 01:00 in autumn.
SpringForward == 6 * MinutesPerDay + 2 * 60 + 5 * 60
FallBack == 6 * MinutesPerDay + 60 + 5 * 60
SchedZones ==
  {[std |-> o, dstStart |-> 0, dstEnd |-> 0, resolve |-> "earlier"] :
     o \in {0 - 5 * 60, 0, 5 * 60 + 30}}
  \cup {[std |-> 0 - 5 * 60, dstStart |-> SpringForward,
         dstEnd |-> (MaxDay + SearchDays + 2) * MinutesPerDay, resolve |-> x] :
          x \in {"earlier", "later"}}
  \cup {[std |-> 0 - 5 * 60, dstStart |-> 0, dstEnd |-> FallBack, resolve |-> x] :
          x \in {"earlier", "later"}}
SchedInstants ==
  {d * MinutesPerDay + m :
     d \in 1..MaxDay,
     m \in {0, 9 * 60 - 1, 9 * 60, 9 * 60 + 1, 17 * 60, 17 * 60 + 1, 23 * 60 + 59}}
  \cup {FallBack - 30, FallBack + 30}

Schedules ==
  {[schedule_rules |-> [days |-> Arr(D), start_time |-> a, end_time |-> b],
    time_zone |-> z] :
     D \in SchedDays, a \in SchedClock, b \in SchedClock, z \in SchedZones}

SchedInit ==
  /\ now \in SchedInstants
  /\ api = [t \in Tasks |-> "none"]
  /\ task = [t \in Tasks |-> NoTask]
  /\ \E sc \in Schedules :
       /\ ClockMinutes(sc.schedule_rules.start_time)
            <= ClockMinutes(sc.schedule_rules.end_time)
       /\ camp = [is_paused |-> TRUE, max_concurrent_calls |-> 1,
                  max_retries |-> 0,
                  total_tasks |-> 0, completed_tasks |-> 0,
                  failed_tasks |-> 0, retries_attempted |-> 0,
                  schedule_id |-> 1, call_schedules |-> sc]
  /\ logs = [t \in Tasks |-> <<>>]
  /\ active_calls = 0
  /\ job = [t \in Tasks |-> [state |-> "none", attemptsMade |-> 0]]
  /\ run = [t \in Tasks |-> IdleRun]
  /\ sch = [r \in Replicas |-> [pc |-> "sleep", rows |-> {}, isShuttingDown |-> FALSE]]
  /\ claims = [t \in Tasks |-> 0]
  /\ faults = MaxFaults
  /\ campaignStatus = "none"

\* one request: the first number added to the campaign
SchedNext ==
  \/ \E t \in Tasks : (\A u \in Tasks : t <= u) /\ addPhoneNumberToCampaign(t)
  \/ \E t \in Tasks : IncrementTotalTasks(t)

SchedSpec == SchedInit /\ [][SchedNext]_vars

\* ------------------------------------------------ schedule_rules as stored
\* Phone numbers added to a campaign whose schedule_rules column holds any
\* JSON the schedules API let through, or that has lost its schedule
\* (schedule_id ... ON DELETE SET NULL).
RawDays ==
  {Undefined, Str(<<"m", "o", "n", "d", "a", "y">>), Arr(<<>>),
   Arr(<<"notaday", "alsonotaday">>), Arr(<<"NotADay">>),
   Arr(<<"monday">>), Arr(<<"Monday", "WEDNESDAY", "FriDAY">>),
   Arr(<<"monday", "notaday">>), Arr(<<"Sunday", "sunday">>)}
RawClock ==
  {Undefined, TimeText(9, 0), TimeText(17, 0), TimeText(25, 0),
   TimeText(9, 60), Str(<<"9", ":", "0", "0">>),
   Str(<<"0", "9", "0", "0">>), Str(<<"0", "9", ":", "0", "a">>),
   Str(<<"0", "9", ":", "0", "0", ":", "0", "0">>)}
RawSchedules ==
  {[schedule_rules |-> [days |-> D, start_time |-> a, end_time |-> b],
    time_zone |-> UTC] : D \in RawDays, a \in RawClock, b \in RawClock}

RulesInit ==
  /\ now \in {StartT0, StartT0 + 2 * MinutesPerDay + 10 * 60}
  /\ api = [t \in Tasks |-> "none"]
  /\ task = [t \in Tasks |-> NoTask]
  /\ \E sc \in RawSchedules, id \in {Null, 1} :
       camp = [is_paused |-> TRUE, max_concurrent_calls |-> 1,
               max_retries |-> 0,
               total_tasks |-> 0, completed_tasks |-> 0,
               failed_tasks |-> 0, retries_attempted |-> 0,
               schedule_id |-> id, call_schedules |-> sc]
  /\ logs = [t \in Tasks |-> <<>>]
  /\ active_calls = 0
  /\ job = [t \in Tasks |-> [state |-> "none", attemptsMade |-> 0]]
  /\ run = [t \in Tasks |-> IdleRun]
  /\ sch = [r \in Replicas |-> [pc |-> "sleep", rows |-> {}, isShuttingDown |-> FALSE]]
  /\ claims = [t \in Tasks |-> 0]
  /\ faults = 0
  /\ campaignStatus = "none"

RulesNext ==
  \/ \E t \in Tasks : addPhoneNumberToCampaign(t)
  \/ \E t \in Tasks : IncrementTotalTasks(t)

RulesSpec == RulesInit /\ [][RulesNext]_vars

\* ------------------------------------------------ campaign status
\* The status of a campaign read for any rows its tasks can have.
TaskRows ==
  {[status |-> st, retry_count |-> n,
    scheduled_at |-> IF st = "absent" THEN Null ELSE StartT0] :
     st \in {"absent", "pending", "in-progress", "completed", "failed"},
     n \in 0..MaxRetriesBound}

StatusInit ==
  /\ now = StartT0
  /\ api = [t \in Tasks |-> "none"]
  /\ task \in [Tasks -> TaskRows]
  /\ \A t \in Tasks :
       /\ task[t].status = "absent" => task[t].retry_count = 0
       /\ task[t].status = "failed" => task[t].retry_count = MaxRetriesBound
  /\ \E p \in BOOLEAN :
       camp = [is_paused |-> p, max_concurrent_calls |-> 1,
               max_retries |-> MaxRetriesBound,
               total_tasks |-> CountAll,
               completed_tasks |-> CountStatus("completed"),
               failed_tasks |-> CountStatus("failed"),
               retries_attempted |->
                 IF \E t \in Tasks : task[t].retry_count > 0 THEN 1 ELSE 0,
               schedule_id |-> 1, call_schedules |-> TheSchedule]
  /\ logs = [t \in Tasks |-> <<>>]
  /\ active_calls = 0
  /\ job = [t \in Tasks |-> [state |-> "none", attemptsMade |-> 0]]
  /\ run = [t \in Tasks |-> IdleRun]
  /\ sch = [r \in Replicas |-> [pc |-> "sleep", rows |-> {}, isShuttingDown |-> FALSE]]
  /\ claims = [t \in Tasks |-> 0]
  /\ faults = MaxFaults
  /\ campaignStatus = "none"

StatusNext == getCampaignStatus

StatusSpec == StatusInit /\ [][StatusNext]_vars

\* ------------------------------------------------ a full claim batch
\* The same system with more claimable tasks than one claim admits: the
\* batch limit scaled down to BatchLimit rows.
BatchNext ==
  \/ \E p \in BOOLEAN : updateCallCampaign(p)
  \/ \E t \in Tasks : enqueueCallTask(t)
  \/ \E r \in Replicas : ClaimSelectWith(r, BatchLimit)
  \/ \E r \in Replicas : ClaimUpdate(r)
  \/ \E r \in Replicas : Enqueue(r)
  \/ \E t \in Tasks : Load(t)
  \/ \E t \in Tasks : Gate(t)
  \/ \E t \in Tasks : DeniedDecr(t)
  \/ \E t \in Tasks : DeniedReschedule(t)
  \/ \E t \in Tasks : CreateLog(t)
  \/ \E t \in Tasks : Place(t)
  \/ \E t \in Tasks : Commit(t)
  \/ \E t \in Tasks : Catch(t)
  \/ \E t \in Tasks : Finally(t)
  \/ Advance

BatchSpec == Init /\ [][BatchNext]_vars

\* ------------------------------------------- campaigns being filled
\* A new campaign (paused, no task yet) to which phone numbers are added
\* while the scheduler and the workers run; no store errors, clock held.
AddInit ==
  /\ now = StartT0
  /\ api = [t \in Tasks |-> "none"]
  /\ task = [t \in Tasks |-> NoTask]
  /\ \E c \in 1..MaxCapBound, m \in 0..MaxRetriesBound :
       camp = [is_paused |-> TRUE, max_concurrent_calls |-> c, max_retries |-> m,
               total_tasks |-> 0, completed_tasks |-> 0,
               failed_tasks |-> 0, retries_attempted |-> 0,
               schedule_id |-> 1, call_schedules |-> TheSchedule]
  /\ logs = [t \in Tasks |-> <<>>]
  /\ active_calls = 0
  /\ job = [t \in Tasks |-> [state |-> "none", attemptsMade |-> 0]]
  /\ run = [t \in Tasks |-> IdleRun]
  /\ sch = [r \in Replicas |-> [pc |-> "sleep", rows |-> {}, isShuttingDown |-> FALSE]]
  /\ claims = [t \in Tasks |-> 0]
  /\ faults = MaxFaults
  /\ campaignStatus = "none"

AddNext ==
  \/ \E p \in BOOLEAN : updateCallCampaign(p)
  \/ \E t \in Tasks : addPhoneNumberToCampaign(t)
  \/ \E t \in Tasks : IncrementTotalTasks(t)
  \/ \E t \in Tasks : enqueueCallTask(t)
  \/ \E r \in Replicas : ClaimSelect(r)
  \/ \E r \in Replicas : ClaimUpdate(r)
  \/ \E r \in Replicas : Enqueue(r)
  \/ \E t \in Tasks : Load(t)
  \/ \E t \in Tasks : Gate(t)
  \/ \E t \in Tasks : DeniedDecr(t)
  \/ \E t \in Tasks : DeniedReschedule(t)
  \/ \E t \in Tasks : CreateLog(t)
  \/ \E t \in Tasks : Place(t)
  \/ \E t \in Tasks : Commit(t)
  \/ \E t \in Tasks : Catch(t)
  \/ \E t \in Tasks : Finally(t)

AddSpec == AddInit /\ [][AddNext]_vars

\* ------------------------------------------------------------ claims
Cap == camp.max_concurrent_calls
Terminal == {"completed", "failed"}

\* workers that passed the gate and have not released it
Holders == {t \in Tasks : run[t].acquired /\ run[t].pc # "idle"}

\* placer invocations made for a task: one per call log that left `initiated`
Places(t) == Cardinality({i \in 1..Len(logs[t]) : logs[t][i] # "initiated"})

\* C1: a task is claimed (pending -> in-progress) at most once per pending
\* period, whatever the number of scheduler replicas ticking concurrently.
C1_ExclusiveClaim == \A t \in Tasks : claims[t] <= 1

\* a replica holds its claimed rows while another replica has claimed or
\* locked rows of its own
C1_Witness ==
  \E t \in Tasks, r1 \in Replicas, r2 \in Replicas :
    /\ r1 # r2
    /\ claims[t] = 1
    /\ sch[r1].pc = "enqueue" /\ t \in sch[r1].rows
    /\ sch[r2].pc \in {"locked", "enqueue"} /\ sch[r2].rows # {}

\* C2: the workers of the campaign between a granted acquire and their
\* release are never more than max_concurrent_calls.
C2_ConcurrencyCap == Cardinality(Holders) <= Cap

\* C3: every pending task that is due eventually reaches completed or failed.
C3_ProgressToTerminal ==
  \A t \in Tasks :
    (task[t].status = "pending" /\ task[t].scheduled_at <= now)
      ~> (task[t].status \in Terminal)

\* C4: a worker run exits at LOAD as an orphan only for a task that is not
\* in-progress; the job of a claimed (in-progress) task passes LOAD.
C4_WorkerEntry ==
  \A t \in Tasks :
    ~(run[t].result = "task_not_found" /\ task[t].status = "in-progress")

\* C5: with a placer that always fails, every task ends failed with
\* retry_count = max_retries after max_retries + 1 placer invocations, and the
\* campaign counts one failed task and max_retries retries per task.
C5_BoundedRetry ==
  <>(/\ \A t \in Tasks : /\ task[t].status = "failed"
                         /\ task[t].retry_count = camp.max_retries
                         /\ Places(t) = camp.max_retries + 1
     /\ camp.failed_tasks = NumTasks
     /\ camp.retries_attempted = NumTasks * camp.max_retries)

\* C6: a worker at the gate is granted a slot only while fewer than
\* max_concurrent_calls workers hold one, and denied only while the others
\* at or past the gate fill the cap, so of max_concurrent_calls + 1 workers
\* arriving together exactly max_concurrent_calls acquire; the denied one
\* sets its task to pending at next_valid(schedule, now), retry_count unchanged.
C6_GateDenial ==
  [][\A t \in Tasks :
       /\ (run[t].pc = "gate" /\ run'[t].pc = "log")
            => Cardinality(Holders) < Cap
       /\ (run[t].pc = "gate" /\ run'[t].pc = "denied")
            => Cardinality(Holders)
                 + Cardinality({u \in Tasks : run[u].pc = "denied"}) >= Cap
       /\ (run[t].pc = "resched" /\ run'[t].pc = "finally")
            => task'[t] = [status |-> "pending",
                           retry_count |-> task[t].retry_count,
                           scheduled_at |->
                             getNextValidScheduleDate(camp.call_schedules, now)]]_vars

\* C7: no task has retry_count above the campaign's max_retries; in
\* particular none that is failed.
C7_RetryBound == \A t \in Tasks : task[t].retry_count <= camp.max_retries

\* a task failed permanently with its retries used up
C7_Witness ==
  \E t \in Tasks : /\ task[t].status = "failed"
                   /\ task[t].retry_count = camp.max_retries
                   /\ run[t].result = "max_retries_exhausted"

C9_ReleaseOnce ==
  \A t \in Tasks :
    run[t].acquired =>
      run[t].decrs = (IF run[t].pc = "idle" THEN 1 ELSE 0)

\* a run that acquired the gate ended by throwing out of the failure path
C9_Witness ==
  \E t \in Tasks : /\ run[t].acquired /\ run[t].pc = "idle"
                   /\ run[t].thrown /\ run[t].decrs = 1

\* C10: the gate counter is never below the number of holders, never
\* negative, and 0 when no worker runs; a denied run decrements once.
C10_GateAccounting ==
  /\ active_calls >= Cardinality(Holders)
  /\ active_calls >= 0
  /\ (\A t \in Tasks : run[t].pc = "idle") => active_calls = 0
  /\ \A t \in Tasks : (~run[t].acquired /\ run[t].pc = "idle") => run[t].decrs <= 1

\* tasks of the campaign whose row has status in-progress
InProgress == {t \in Tasks : task[t].status = "in-progress"}

\* workers between their INCR and the DECR of the denied branch
Transient == {t \in Tasks : run[t].pc = "denied"}

\* C11: the number of tasks with status in-progress is never above
\* max_concurrent_calls + K, K the number of workers between their INCR and
\* their DECR-on-reject.
C11_InProgressCap ==
  Cardinality(InProgress) <= Cap + Cardinality(Transient)

\* the step in which the run of task t leaves its catch block
CatchStep(t) == run[t].pc = "catch" /\ run'[t].pc = "finally"

\* a run that was denied at the gate and has not ended
DeniedRun(t) == ~run[t].acquired /\ run[t].pc \in {"denied", "resched", "catch", "finally"}

\* C12: retry_count, retries_attempted and failed_tasks change only in a run
\* whose placer was invoked and reported failure; a run denied at the gate,
\* also one whose reschedule cannot be computed or written, changes none of
\* them and creates no call log.
C12_RetryCountsPlaceFailures ==
  [][\A t \in Tasks :
       /\ task'[t].retry_count # task[t].retry_count
            => run[t].error = "call_failed"
       /\ (CatchStep(t) /\ (\/ camp'.retries_attempted # camp.retries_attempted
                            \/ camp'.failed_tasks # camp.failed_tasks))
            => run[t].error = "call_failed"
       /\ DeniedRun(t) => logs'[t] = logs[t]]_vars

\* C17: when a store operation failed in a run after the gate was acquired,
\* the error leaves the job as a throw (so that the queue retries it) and the
\* run changes neither the task row nor the campaign counters.
C17_InfrastructureErrors ==
  [][\A t \in Tasks :
       (CatchStep(t) /\ run[t].acquired /\ run[t].error = "store")
         => /\ run'[t].thrown
            /\ task'[t] = task[t]
            /\ camp' = camp]_vars

\* C13: no step decreases completed_tasks, failed_tasks or retries_attempted
\* of the campaign.
C13_CounterMonotonicity ==
  [][/\ camp'.completed_tasks >= camp.completed_tasks
     /\ camp'.failed_tasks >= camp.failed_tasks
     /\ camp'.retries_attempted >= camp.retries_attempted]_vars

\* a campaign that counted a completed task and a retry or a failed task,
\* while the scheduler and a worker are at work
C13_Witness ==
  /\ camp.completed_tasks >= 1
  /\ camp.retries_attempted + camp.failed_tasks >= 1
  /\ \E r \in Replicas : sch[r].pc # "sleep"

\* instant t lies in the window of schedule s: its wall-clock in the schedule's
\* time zone is on a permitted weekday, start_time <= time of day <= end_time
InWindow(s, t) ==
  LET z == toZonedTime(t, s.tz)
  IN /\ getDay(z) \in s.days
     /\ s.start_time <= z - startOfDay(z)
     /\ z - startOfDay(z) <= s.end_time

\* the step in which the placer is invoked for task t and returns
PlaceStep(t) == run[t].pc = "place" /\ run'[t].pc \in {"commit", "catch"}

\* C15: the placer is invoked for a task only at an instant inside the window
\* of the campaign's schedule.
C15_CallsInsideWindow ==
  [][\A t \in Tasks : PlaceStep(t) => InWindow(Rules(camp.call_schedules), now)]_vars

\* C14: completed_tasks + failed_tasks never exceeds total_tasks, also while
\* phone numbers are being added to the campaign during execution.
C14_CounterBound ==
  camp.completed_tasks + camp.failed_tasks <= camp.total_tasks

\* the step in which a worker takes the waiting job of task t
Delivery(t) ==
  job[t].state = "waiting" /\ run[t].pc = "idle" /\ job'[t].state # "waiting"

RetryTask(t) ==
  /\ task[t].status = "pending" /\ task[t].retry_count > 0
  /\ run[t].result = "retryable_error" /\ run[t].error = "call_failed"

\* a pending task for which no call was attempted yet
NewTask(t) ==
  task[t].status = "pending" /\ task[t].retry_count = 0 /\ logs[t] = <<>>

\* C18: when a claim cannot take all eligible tasks, it does not take a
\* never-attempted task and leave behind an eligible task that waits for its
\* retry.
C18_RetriesFirst ==
  [][\A r \in Replicas :
       (sch[r].pc = "sleep" /\ sch'[r].pc = "locked")
         => \A a \in sch'[r].rows, b \in Claimable \ sch'[r].rows :
              ~(NewTask(a) /\ RetryTask(b))]_vars

Created == {t \in Tasks : task[t].status = "pending"}
\* tasks whose creating call has just written the row
JustCreated == {t \in Tasks : api[t] = "created"}

\* what next_valid owes for the rules sc and the instant t when it returns s:
\* an instant not before t whose wall-clock in the zone is on a permitted
\* weekday within [start_time, end_time]
Correct(sc, t, s) == s >= t /\ InWindow(sc, s)

\* s is the earliest permitted instant from t on: t itself when t is
\* permitted, and no instant of [t, s) is permitted
Earliest(sc, t, s) ==
  /\ InWindow(sc, t) => s = t
  /\ \A u \in t..(s - 1) : ~InWindow(sc, u)

\* C19 as stated: for well-formed rules with start_time <= end_time, ANY time
\* zone and any instant t, next_valid is either null (and no task is created)
\* or an instant s >= t whose wall-clock in the zone is on a permitted weekday
\* within [start_time, end_time], which the created task carries.
C19_ScheduleCorrectness ==
  \A t \in Created :
    /\ task[t].scheduled_at = getNextValidScheduleDate(camp.call_schedules, now)
    /\ Correct(Rules(camp.call_schedules), now, task[t].scheduled_at)

\* C19 amended: the same, for a time zone that keeps one offset from UTC.
C19_FixedOffsetCorrectness ==
  FixedOffset(camp.call_schedules.time_zone) =>
    \A t \in Created :
      /\ task[t].scheduled_at = getNextValidScheduleDate(camp.call_schedules, now)
      /\ Correct(Rules(camp.call_schedules), now, task[t].scheduled_at)

\* a task created outside the window, in a zone of fixed offset away from
\* UTC, for a later day
C19_Witness ==
  \E t \in Created :
    /\ FixedOffset(camp.call_schedules.time_zone)
    /\ camp.call_schedules.time_zone.std # 0
    /\ ~InWindow(Rules(camp.call_schedules), now)
    /\ task[t].scheduled_at >= now + MinutesPerDay

\* C20 as stated: next_valid finds a slot whenever a weekday is permitted, and
\* the earliest permitted instant >= from (from itself inside a window, both
\* ends included; else the window start of that or of the next permitted
\* day); no permitted instant lies in [from, result).
C20_EarliestSlot ==
  /\ validDays(camp.call_schedules.schedule_rules.days.items) # {} =>
       getNextValidScheduleDate(camp.call_schedules, now) # Null
  /\ \A t \in JustCreated :
       Earliest(Rules(camp.call_schedules), now, task[t].scheduled_at)

\* C20 amended: the same, for a time zone that keeps one offset from UTC.
C20_FixedOffsetEarliest ==
  FixedOffset(camp.call_schedules.time_zone) =>
    /\ validDays(camp.call_schedules.schedule_rules.days.items) # {} =>
         getNextValidScheduleDate(camp.call_schedules, now) # Null
    /\ \A t \in JustCreated :
         Earliest(Rules(camp.call_schedules), now, task[t].scheduled_at)

\* a task created at the only instant of a window with start_time = end_time
C20_Witness ==
  \E t \in JustCreated :
    /\ FixedOffset(camp.call_schedules.time_zone)
    /\ camp.call_schedules.schedule_rules.start_time
         = camp.call_schedules.schedule_rules.end_time
    /\ task[t].scheduled_at = now

\* what the rule validation of the specification accepts, stated on the JSON
WeekdayNames ==
  {"sunday", "monday", "tuesday", "wednesday", "thursday", "friday",
   "saturday"}
Recognised(name) == toLowerCase(name) \in WeekdayNames
DigitChars == {Digits[i] : i \in DOMAIN Digits}
HasPattern(v) ==
  /\ v.type = "string"
  /\ Len(v.chars) = 5
  /\ {v.chars[1], v.chars[2], v.chars[4], v.chars[5]} \subseteq DigitChars
  /\ v.chars[3] = ":"

\* the malformations of C21
Malformed(rules) ==
  \/ rules.days.type # "array"
  \/ /\ rules.days.type = "array"
     /\ \A i \in DOMAIN rules.days.items : ~Recognised(rules.days.items[i])
  \/ ~HasPattern(rules.start_time)
  \/ ~HasPattern(rules.end_time)

\* the schedule with its day names written in lower case
LowerCased(schedule) ==
  [schedule EXCEPT !.schedule_rules.days.items =
     [i \in DOMAIN @ |-> toLowerCase(@[i])]]

Refused(t) == api[t] = "InvalidScheduleError"

\* C21: next_valid returns null when days is not a list, is empty or holds
\* only unrecognised names, or when start_time or end_time is missing or not
\* of the form HH:MM (then no task is created); day names are matched
\* case-insensitively.
C21_MalformedRules ==
  LET sc == camp.call_schedules
  IN /\ Malformed(sc.schedule_rules)
          => /\ getNextValidScheduleDate(sc, now) = Null
             /\ Created = {}
     /\ sc.schedule_rules.days.type = "array"
          => getNextValidScheduleDate(sc, now)
               = getNextValidScheduleDate(LowerCased(sc), now)

\* a phone number refused for a schedule whose start_time is "9:00"
C21_Witness ==
  \E t \in Tasks :
    /\ Refused(t)
    /\ camp.schedule_id # Null
    /\ camp.call_schedules.schedule_rules.days = Arr(<<"monday">>)
    /\ camp.call_schedules.schedule_rules.start_time
         = Str(<<"9", ":", "0", "0">>)
    /\ camp.call_schedules.schedule_rules.end_time = TimeText(17, 0)

\* a time of the HH:MM form that is no time of a 24-hour day
NotATime(v) ==
  /\ HasPattern(v)
  /\ \/ Number(v.chars[1]) * 10 + Number(v.chars[2]) > 23
     \/ Number(v.chars[4]) * 10 + Number(v.chars[5]) > 59
\* a list with an unrecognised name in it
StrayName(days) ==
  days.type = "array" /\ \E i \in DOMAIN days.items : ~Recognised(days.items[i])
\* a list with two names of the same weekday
RepeatedDay(days) ==
  /\ days.type = "array"
  /\ \E i \in DOMAIN days.items, j \in DOMAIN days.items :
       i # j /\ toLowerCase(days.items[i]) = toLowerCase(days.items[j])

Deviates(rules) ==
  \/ Malformed(rules)
  \/ NotATime(rules.start_time) \/ NotATime(rules.end_time)
  \/ StrayName(rules.days) \/ RepeatedDay(rules.days)

\* C22: next_valid returns null for every deviation from the accepted rule
\* shape, also for times of the form HH:MM with hour > 23 or minute > 59 and
\* for a days list with an unrecognised name next to valid ones or with two
\* names of the same weekday; so no task is created under such rules.
C22_StrictValidation ==
  Deviates(camp.call_schedules.schedule_rules) => Created = {}

Has(status) == \E t \in Tasks : task[t].status = status

\* C23: the aggregator returns paused if is_paused; otherwise paused if the
\* campaign has no tasks, else failed if a task is failed (even while others
\* are pending or in-progress), else in-progress if a task is pending or
\* in-progress, else completed if all tasks are completed, else paused.
C23_StatusDerivation ==
  campaignStatus # "none" =>
    campaignStatus =
      IF camp.is_paused THEN "paused"
      ELSE IF \A t \in Tasks : task[t].status = "absent" THEN "paused"
      ELSE IF Has("failed") THEN "failed"
      ELSE IF Has("pending") \/ Has("in-progress") THEN "in-progress"
      ELSE IF \A t \in Tasks : task[t].status \in {"absent", "completed"}
        THEN "completed"
      ELSE "paused"

\* failed is reported for a running campaign that still has a task in flight
C23_Witness ==
  /\ campaignStatus = "failed"
  /\ ~camp.is_paused
  /\ Has("in-progress") \/ Has("pending")

\* a step in which a request to add phone number t is answered
Answered(t) == api[t] # "created" /\ api'[t] # api[t]

\* C24: when the campaign has no schedule or next_valid returns null for it,
\* or a task already exists for the pair, adding the phone number fails with
\* InvalidScheduleError / CallTaskAlreadyExistsError and leaves the store
\* unchanged: no task row is created, total_tasks is not incremented.
C24_RefusedAdditions ==
  [][\A t \in Tasks :
       /\ (Answered(t) /\ task[t].status # "absent")
            => /\ api'[t] = "CallTaskAlreadyExistsError"
               /\ UNCHANGED <<task, camp>>
       /\ (/\ Answered(t)
           /\ task[t].status = "absent"
           /\ \/ camp.schedule_id = Null
              \/ getNextValidScheduleDate(camp.call_schedules, now) = Null)
            => /\ api'[t] = "InvalidScheduleError"
               /\ UNCHANGED <<task, camp>>
       /\ (task[t].status = "absent" /\ task'[t].status # "absent")
            => /\ camp.schedule_id # Null
               /\ getNextValidScheduleDate(camp.call_schedules, now) # Null]_vars

\* a phone number refused for a campaign that has no schedule
C24_Witness ==
  \E t \in Tasks :
    /\ Refused(t)
    /\ camp.schedule_id = Null
    /\ task[t].status = "absent"
    /\ camp.total_tasks = 0

RECURSIVE SumRetryCount(_, _)
SumRetryCount(rows, S) ==
  IF S = {} THEN 0
  ELSE LET t == CHOOSE x \in S : TRUE
       IN rows[t].retry_count + SumRetryCount(rows, S \ {t})
NumberIn(rows, status) == Cardinality({t \in Tasks : rows[t].status = status})

\* C25: in every step completed_tasks grows by exactly the number of tasks
\* that move to completed, failed_tasks by the number that move to failed and
\* retries_attempted by the sum of the retry_count increments; so no state
\* shows a task change without its counter increment or the reverse.
C25_ConsistentTransitions ==
  [][/\ camp'.completed_tasks - camp.completed_tasks
          = NumberIn(task', "completed") - NumberIn(task, "completed")
     /\ camp'.failed_tasks - camp.failed_tasks
          = NumberIn(task', "failed") - NumberIn(task, "failed")
     /\ camp'.retries_attempted - camp.retries_attempted
          = SumRetryCount(task', Tasks) - SumRetryCount(task, Tasks)]_vars

\* one task completed and the other rescheduled for a retry, each counted once
C25_Witness ==
  \E t \in Tasks, u \in Tasks :
    /\ task[t].status = "completed"
    /\ task[u].status = "pending" /\ task[u].retry_count = 1
    /\ camp.completed_tasks = 1 /\ camp.retries_attempted = 1
    /\ run[u].pc = "idle"

\* the tasks a step moves to in-progress
Moved == {t \in Tasks : task[t].status # "in-progress"
                          /\ task'[t].status = "in-progress"}
\* the UPDATE of a claim statement of replica r
ClaimStep(r) == sch[r].pc = "locked" /\ sch'[r].pc = "enqueue"

\* C26: only a claim moves tasks to in-progress, and only tasks that at that
\* moment are pending, of a campaign with is_paused = FALSE and with
\* scheduled_at <= now + horizon; at most the batch limit per claim; no other
\* task, no retry_count and no campaign counter changes in the step.
C26_ClaimEligibility ==
  [][Moved # {} =>
       /\ \E r \in Replicas : ClaimStep(r)
       /\ Cardinality(Moved) <= BatchLimit
       /\ \A t \in Moved :
            /\ task[t].status = "pending"
            /\ ~camp.is_paused
            /\ task[t].scheduled_at <= now + SCHEDULE_WINDOW_MINUTES + 1
            /\ task'[t] = [task[t] EXCEPT !.status = "in-progress"]
       /\ \A t \in Tasks \ Moved : task'[t] = task[t]
       /\ camp' = camp]_vars

\* a claim that took the batch limit of tasks and left a due one behind, made
\* after the clock moved on from the instant the campaign was started
C26_Witness ==
  \E r \in Replicas, t \in Tasks, u \in Tasks :
    /\ sch[r].pc = "enqueue" /\ sch[r].rows = {t}
    /\ task[t].status = "in-progress"
    /\ task[u].status = "pending" /\ task[u].scheduled_at <= now
    /\ now > StartT0

\* the sub-select of a claim statement of replica r
SelectStep(r) == sch[r].pc = "sleep" /\ sch'[r].pc = "locked"
\* a comes before b in ascending scheduled_at order, ties broken by id
Before(a, b) ==
  \/ task[a].scheduled_at < task[b].scheduled_at
  \/ task[a].scheduled_at = task[b].scheduled_at /\ a < b

\* C27: a claim takes the eligible unlocked tasks in ascending scheduled_at
\* order with ties broken by id: every task it takes comes before every
\* eligible unlocked task it leaves.
C27_ClaimOrdering ==
  [][\A r \in Replicas :
       SelectStep(r) =>
         \A a \in sch'[r].rows, b \in Claimable \ sch'[r].rows : Before(a, b)]_vars

Due(t) ==
  task[t].status = "pending" /\ ~camp.is_paused /\ task[t].scheduled_at <= now

\* C28: while the scheduler keeps ticking, every task that is pending in an
\* unpaused campaign with scheduled_at <= now is claimed by some tick (or has
\* been finished by a worker that already held its job), also when more tasks
\* are due than a claim admits and while denied or failed tasks are
\* rescheduled.
C28_NoMissedActivation ==
  \A t \in Tasks : Due(t) ~> (task[t].status # "pending")

\* a task that was due together with the other one, was denied at the gate
\* and rescheduled to the next day's window, and is claimed there
C28_Witness ==
  \E u \in Tasks :
    /\ task[u].status = "in-progress" /\ claims[u] = 1
    /\ run[u].result = "campaign_max_concurrent_calls_reached"
    /\ task[u].scheduled_at >= StartT0 + MinutesPerDay
    /\ now >= task[u].scheduled_at

LiveJob(t) == job[t].state \in {"waiting", "active"}

Executing(t) == run[t].pc # "idle"

\* the tick that claimed t has not yet made its bulk-enqueue call
BeingEnqueued(t) == \E r \in Replicas : sch[r].pc = "enqueue" /\ t \in sch[r].rows

\* C29: with no process crashing, every in-progress task has a live job in
\* the queue or a worker running its state machine (or is between the claim
\* and the bulk enqueue of the tick that claimed it), also after a failed
\* bulk enqueue and after a worker acknowledged the job at LOAD.
C29_NoOrphanWithoutCrash ==
  \A t \in Tasks :
    task[t].status = "in-progress" => LiveJob(t) \/ Executing(t) \/ BeingEnqueued(t)

\* a step of the single or of the bulk enqueue helper
EnqueueStep ==
  \/ \E t \in Tasks : enqueueCallTask(t)
  \/ \E r \in Replicas : Enqueue(r)

NonTerminalLogs(t) ==
  {i \in 1..Len(logs[t]) : logs[t][i] \in {"initiated", "in-progress"}}

\* C31: in every reachable state each task has at most one call log in a
\* non-terminal status (initiated or in-progress): the log of a placement
\* attempt is terminal before a later attempt of the task creates its log.
C31_CallLogLifecycle ==
  \A t \in Tasks : Cardinality(NonTerminalLogs(t)) <= 1

Exited(r) == sch[r].pc = "exited"

\* C32: after the shutdown signal a replica starts no new tick, and the tick
\* in progress runs to completion: when the process has exited, no task
\* that its last tick claimed is left without having been enqueued.
C32_SchedulerShutdown ==
  \A r \in Replicas : Exited(r) => sch[r].rows = {}

\* C33: every invocation of simulateCall settles, so every worker run that
\* acquired the gate and placed the call reaches the release step (finally),
\* also when the log update inside simulateCall throws.
C33_PlacerSettles ==
  \A t \in Tasks : (run[t].pc = "place") ~> (run[t].pc = "finally")

\* the job of task t was acknowledged or failed for good; BullMQ keeps it
FinishedJob(t) == job[t].state \in {"completed", "failed"}

\* a tick's bulk enqueue of its claimed rows that did not throw
EnqueuedBy(r) ==
  /\ sch[r].pc = "enqueue" /\ sch'[r].pc = "sleep"
  /\ faults' = faults

\* C34: once the job of a task-id is finished, enqueuing the task-id again
\* (the task was rescheduled to pending and claimed again) creates a new
\* waiting job; the finished job of the same id does not make it a no-op.
C34_ReDispatch ==
  [][\A r \in Replicas : \A t \in Tasks :
       EnqueuedBy(r) /\ t \in sch[r].rows /\ FinishedJob(t)
         => job'[t].state = "waiting"]_vars

\* calendar day, in the schedule's zone, of instant t
ZonedDay(t) == startOfDay(toZonedTime(t, camp.call_schedules.time_zone))

\* days between the starting day and the day of the slot given to task t
DaysAhead(t) == (ZonedDay(task[t].scheduled_at) - ZonedDay(now)) \div MinutesPerDay

\* C35: for well-formed rules with at least one recognised weekday and
\* start_time <= end_time the search never ends without a slot (no addition
\* is refused for lack of one), and the slot lies at most 7 days after the
\* starting day.
C35_TotalOnValidRules ==
  validDays(camp.call_schedules.schedule_rules.days.items) # {}
    => \A t \in Tasks : /\ ~Refused(t)
                        /\ t \in Created => DaysAhead(t) <= 7

\* a number added on the only weekday of the schedule after its window has
\* closed: the slot is the same weekday of the next week
C35_Witness ==
  \E t \in JustCreated :
    /\ Cardinality(validDays(camp.call_schedules.schedule_rules.days.items)) = 1
    /\ DaysAhead(t) = 7

\* the slot computed again from the slot given to task t
Again(t) == getNextValidScheduleDate(camp.call_schedules, task[t].scheduled_at)

C37_AggregatorRange ==
  /\ campaignStatus # "pending"
  /\ (campaignStatus = "paused" /\ ~camp.is_paused) => CountAll = 0

\* the status read for a running campaign none of whose tasks has been
\* claimed yet
C37_Witness ==
  /\ campaignStatus = "in-progress"
  /\ ~camp.is_paused
  /\ CountAll > 0
  /\ \A t \in Tasks : task[t].status \in {"absent", "pending"}

\* no add-phone-number request is between its two writes
NoAddInProgress == \A t \in Tasks : api[t] # "created"

\* C38: after any sequence of add-phone-number operations, also one that was
\* interrupted between call_tasks.create and the total_tasks update,
\* campaign.total_tasks equals the number of task rows of the campaign (one
\* row at most per phone number, the rows being keyed by the pair).
C38_TotalTasksTracksRows ==
  NoAddInProgress => camp.total_tasks = CountAll

====
